---- MODULE Spec2Model ----
(***************************************************************************)
(* tinySAK counting semaphore (tsk_semaphore.c): create, increment,        *)
(* decrement and destroy over the two native facilities the file selects   *)
(* at build time (TSK_UNDER_WINDOWS: kernel semaphore object; otherwise a  *)
(* POSIX unnamed semaphore placed in a block obtained from tsk_calloc).    *)
(*                                                                         *)
(* Threads call the four functions on handle slots owned by the caller.    *)
(* A platform object is identified by the value of its handle (the block   *)
(* address or the kernel handle), so that a released object whose address  *)
(* is handed out again is reached through stale copies of the handle.      *)
(***************************************************************************)
EXTENDS Integers, FiniteSets, TLC

\* ------------------------------------------------------------------ bounds
\* Largest counter value of the platform object in the model; it stands for
\* 0x7FFFFFFF (CreateSemaphore's lMaximumCount, SEM_VALUE_MAX).
MaxCount == 2
\* Transient interruptions injected into one decrement call.
MaxIntr == 1
\* Successful platform decrements followed within one decrement call.
MaxDec == 2
\* M: the signal calls and the wait calls of the fair scenario.
NumPairs == 2

\* The threads of the general specification, and those of the scenarios
\* with concurrent waiters and a signaller.
Threads == {1, 2}
Pool    == {1, 2, 3}
\* The two thread pools of the fair scenario.
Waiters    == {1, 2}
Signallers == {3}
Slots   == {1}
Objs    == {1, 2}

\* Successful increments followed per object incarnation: one more than the
\* counter can hold, so that the increment is also tried on a full counter.
MaxSignals == MaxCount + 1

\* ------------------------------------------------------- program constants
NULL   == 0
EINVAL == 22

\* The thread's error indicator.  The code only compares it with EINTR
\* (line 122) and prints it (line 123): every other value is "OTHER".
ErrnoVals == {"EINTR", "OTHER"}

\* The builds: a data model and the C library that defines sem_t.
Abis(p) == IF p = "posix" THEN {"lp64_glibc", "ilp32_bionic"} ELSE {"llp64_msvc"}

\* sizeof(SEMAPHORE_T) on POSIX, lines 41 and 63: SEMAPHORE_T is sem_t*, an
\* object pointer.
sizeof_SEMAPHORE_T(a) == IF a = "ilp32_bionic" THEN 4 ELSE 8

\* sizeof(sem_t), the object sem_init fills in at line 65: 32 bytes in glibc
\* for LP64, one 32-bit word in 32-bit bionic.
sizeof_sem_t(a) == IF a = "lp64_glibc" THEN 32 ELSE 4

\* tsk_calloc(n, sz) of line 63: the bytes of the block it returns.
tsk_calloc(n, sz) == n * sz

VARIABLES
    platform,   \* "posix" | "windows": the variant the build selected
    abi,        \* the data model and C library the build targets
    crashed,    \* the process took a fault (sem_init through an absent block)
    slot,       \* slot[s]: the caller's handle storage, NULL or an object
    st,         \* st[o]: "free" | "alloc" (block obtained, not initialised) | "live"
    cnt,        \* cnt[o]: the platform object's counter
    nSigOK,     \* nSigOK[o]: increments that succeeded on this incarnation
    nWaitRet,   \* nWaitRet[o]: decrement calls that returned 0 on this incarnation
    pc,         \* pc[t]: "idle" | "sem_init" | "sem_wait" | "blocked"
    h,          \* h[t]: the handle of the call in progress (NULL when idle)
    tgt,        \* tgt[t]: the slot the caller assigns create's result to
    errno,      \* errno[t]: the thread's error indicator
    ndec,       \* ndec[t]: platform decrements that succeeded in the call
    nintr,      \* nintr[t]: platform decrements the call saw interrupted
    last        \* the call that returned last: what it was and what it did

vars == << platform, abi, crashed, slot, st, cnt, nSigOK, nWaitRet, pc, h, tgt,
           errno, ndec, nintr, last >>

shared == << slot, st, cnt, nSigOK, nWaitRet >>
local  == << pc, h, tgt, errno, ndec, nintr >>

\* ------------------------------------------------------------------ helpers
\* The slots a create in progress will assign to.
Pending == { tgt[t] : t \in { u \in DOMAIN pc : pc[u] = "sem_init" } }

\* The handle a caller passes: the content of slot s, or NULL for no slot.
Arg(s) == IF s = 0 THEN NULL ELSE slot[s]

\* errno after a platform call that succeeded: the call leaves it alone, or
\* (unspecified by POSIX) stores some value, which is never EINTR.
ErrnoAfterSuccess(e) == {e, "OTHER"}

\* The record of a returned call: its name, the value returned, the
\* diagnostics emitted, the platform calls made, the platform decrements
\* that succeeded and that were interrupted, the objects or blocks released,
\* and whether the allocator returned no block.
Call(name, r, logs, calls, decs, intrs, rels, noblock) ==
    [op |-> name, ret |-> r, nlog |-> logs, ncalls |-> calls, ndec |-> decs,
     nintr |-> intrs, nrel |-> rels, absent |-> noblock]


\* Nothing is created yet and the threads T are outside this file's code,
\* each with whatever its earlier system calls left in errno.
Boot(T) ==
    /\ platform \in {"posix", "windows"}
    /\ abi \in Abis(platform)
    /\ crashed = FALSE
    /\ slot = [s \in Slots |-> NULL]
    /\ st = [o \in Objs |-> "free"]
    /\ cnt = [o \in Objs |-> 0]
    /\ nSigOK = [o \in Objs |-> 0]
    /\ nWaitRet = [o \in Objs |-> 0]
    /\ pc = [t \in T |-> "idle"]
    /\ h = [t \in T |-> NULL]
    /\ tgt = [t \in T |-> 0]
    /\ errno \in [T -> ErrnoVals]
    /\ ndec = [t \in T |-> 0]
    /\ nintr = [t \in T |-> 0]
    /\ last = Call("none", 0, 0, 0, 0, 0, 0, FALSE)

Init == Boot(Threads)

\* The thread's own code outside this file leaves any value in errno.
OtherCode(t, e) ==
    /\ ~crashed
    /\ pc[t] = "idle"
    /\ errno[t] # e
    /\ errno' = [errno EXCEPT ![t] = e]
    /\ UNCHANGED << platform, abi, crashed, shared, pc, h, tgt, ndec, nintr, last >>

\* ------------------------------------------------------------------- create
\* A platform object comes to life with counter 0 (lines 61 and 65).
NewObject(o) ==
    /\ st'       = [st EXCEPT ![o] = "live"]
    /\ cnt'      = [cnt EXCEPT ![o] = 0]
    /\ nSigOK'   = [nSigOK EXCEPT ![o] = 0]
    /\ nWaitRet' = [nWaitRet EXCEPT ![o] = 0]

\* Windows, line 61: handle = CreateSemaphore(NULL, 0, 0x7FFFFFFF, NULL);
\* lines 72-76: a null handle is logged and returned.  The caller stores the
\* result in its slot.
CreateWin(t, s) ==
    /\ ~crashed
    /\ platform = "windows"
    /\ pc[t] = "idle"
    /\ slot[s] = NULL /\ s \notin Pending
    /\ \/ \E o \in Objs :
            /\ st[o] = "free"
            /\ NewObject(o)
            /\ slot' = [slot EXCEPT ![s] = o]
            /\ last' = Call("create", o, 0, 1, 0, 0, 0, FALSE)
       \/ /\ last' = Call("create", NULL, 1, 1, 0, 0, 0, FALSE)
          /\ UNCHANGED shared
    /\ UNCHANGED << platform, abi, crashed, local >>

\* POSIX, line 63: handle = tsk_calloc(1, sizeof(SEMAPHORE_T)); the allocator
\* returns a zeroed block or, on exhaustion, no block.
CreateAlloc(t, s) ==
    /\ ~crashed
    /\ platform = "posix"
    /\ pc[t] = "idle"
    /\ slot[s] = NULL /\ s \notin Pending
    /\ pc' = [pc EXCEPT ![t] = "sem_init"]
    /\ tgt' = [tgt EXCEPT ![t] = s]
    /\ \/ \E b \in Objs :
            /\ st[b] = "free"
            /\ st' = [st EXCEPT ![b] = "alloc"]
            /\ cnt' = [cnt EXCEPT ![b] = 0]
            /\ h' = [h EXCEPT ![t] = b]
            /\ errno' = errno
       \/ /\ h' = [h EXCEPT ![t] = NULL]
          /\ errno' = [errno EXCEPT ![t] = "OTHER"]
          /\ UNCHANGED << st, cnt >>
    /\ UNCHANGED << platform, abi, crashed, slot, nSigOK, nWaitRet, ndec, nintr, last >>

\* Leaving create: the locals go.
CreateLeave(t, e) ==
    /\ pc' = [pc EXCEPT ![t] = "idle"]
    /\ h' = [h EXCEPT ![t] = NULL]
    /\ tgt' = [tgt EXCEPT ![t] = 0]
    /\ errno' = [errno EXCEPT ![t] = e]
    /\ UNCHANGED << platform, abi, ndec, nintr >>

\* TSK_FREE(handle) of line 67 (tsk_memory.h): the block goes back to the
\* allocator and the variable is cleared.
TSK_FREE(b) == st' = [st EXCEPT ![b] = "free"]

\* A released object has no counter any more.
Forget(o) ==
    /\ cnt' = [cnt EXCEPT ![o] = 0]
    /\ nSigOK' = [nSigOK EXCEPT ![o] = 0]
    /\ nWaitRet' = [nWaitRet EXCEPT ![o] = 0]

\* POSIX, line 65, on a block: sem_init succeeds, and the handle is returned.
CreateInitOk(t) ==
    /\ NewObject(h[t])
    /\ slot' = [slot EXCEPT ![tgt[t]] = h[t]]
    /\ last' = Call("create", h[t], 0, 1, 0, 0, 0, FALSE)
    /\ CreateLeave(t, errno[t])
    /\ UNCHANGED crashed

\* CreateInitFail without line 67: the block of a failed sem_init is kept.
CreateInitFail_Leak(t) ==
    /\ last' = Call("create", NULL, 2, 1, 0, 0, 0, FALSE)
    /\ CreateLeave(t, "OTHER")
    /\ UNCHANGED << crashed, shared >>

\* POSIX, lines 65-76, on a block: sem_init fails; the block is released,
\* both diagnostics are emitted and the cleared handle is returned.
CreateInitFail(t) ==
    /\ TSK_FREE(h[t])
    /\ last' = Call("create", NULL, 2, 1, 0, 0, 1, FALSE)
    /\ CreateLeave(t, "OTHER")
    /\ UNCHANGED << crashed, slot, cnt, nSigOK, nWaitRet >>

\* POSIX, line 65, when tsk_calloc returned no block: sem_init is called on a
\* null pointer all the same.  The behaviour is undefined: the process
\* faults, or the call comes back with an error (two diagnostics) or
\* without one (one diagnostic), and the null handle is returned.
CreateInitNull(t) ==
    /\ \/ /\ crashed' = TRUE
          /\ UNCHANGED << platform, abi, local, last >>
       \/ /\ crashed' = FALSE
          /\ \E logs \in {1, 2} :
                last' = Call("create", NULL, logs, 1, 0, 0, 0, TRUE)
          /\ CreateLeave(t, "OTHER")
    /\ UNCHANGED shared

\* POSIX, lines 63-65: sem_init fills in a sem_t at the start of a block
\* of sizeof(SEMAPHORE_T) bytes.
Overrun == tsk_calloc(1, sizeof_SEMAPHORE_T(abi)) < sizeof_sem_t(abi)

\* POSIX, line 65, on a block too small for a sem_t: the write past the end
\* of the block is undefined behaviour; it goes unnoticed (the call then
\* succeeds or fails as usual) or it damages the heap and the process faults.
CreateInitOverrun(t) ==
    /\ Overrun
    /\ crashed' = TRUE
    /\ UNCHANGED << platform, abi, shared, local, last >>

CreateInit(t) ==
    /\ ~crashed
    /\ pc[t] = "sem_init"
    /\ IF h[t] = NULL
         THEN CreateInitNull(t)
         ELSE CreateInitOk(t) \/ CreateInitFail(t) \/ CreateInitOverrun(t)

\* Increment when lines 93 and 95 drop the result of the platform call: a
\* failed increment is reported as a success, without a diagnostic.
Increment_IgnoreFailure(t, s) ==
    /\ ~crashed
    /\ pc[t] = "idle"
    /\ LET o == Arg(s) IN
       IF o = NULL
         THEN /\ last' = Call("signal", EINVAL, 0, 0, 0, 0, 0, FALSE)
              /\ UNCHANGED << cnt, nSigOK, errno >>
         ELSE IF st[o] = "live" /\ cnt[o] < MaxCount
           THEN /\ nSigOK[o] < MaxSignals
                /\ cnt' = [cnt EXCEPT ![o] = @ + 1]
                /\ nSigOK' = [nSigOK EXCEPT ![o] = @ + 1]
                /\ last' = Call("signal", 0, 0, 1, 0, 0, 0, FALSE)
                /\ \E e \in ErrnoAfterSuccess(errno[t]) :
                      errno' = [errno EXCEPT ![t] = e]
           ELSE /\ last' = Call("signal", 0, 0, 1, 0, 0, 0, FALSE)
                /\ errno' = [errno EXCEPT ![t] = "OTHER"]
                /\ UNCHANGED << cnt, nSigOK >>
    /\ UNCHANGED << platform, abi, crashed, slot, st, nWaitRet, pc, h, tgt, ndec, nintr >>

\* ---------------------------------------------------------------- increment
\* tsk_semaphore_increment, lines 86-101.  sem_post / ReleaseSemaphore adds
\* one to the counter, or fails when the counter is at its maximum (or the
\* handle is no semaphore).
Increment(t, s) ==
    /\ ~crashed
    /\ pc[t] = "idle"
    /\ LET o == Arg(s) IN
       IF o = NULL
         THEN /\ last' = Call("signal", EINVAL, 0, 0, 0, 0, 0, FALSE)
              /\ UNCHANGED << cnt, nSigOK, errno >>
         ELSE IF st[o] = "live" /\ cnt[o] < MaxCount
           THEN /\ nSigOK[o] < MaxSignals
                /\ cnt' = [cnt EXCEPT ![o] = @ + 1]
                /\ nSigOK' = [nSigOK EXCEPT ![o] = @ + 1]
                /\ last' = Call("signal", 0, 0, 1, 0, 0, 0, FALSE)
                /\ \E e \in ErrnoAfterSuccess(errno[t]) :
                      errno' = [errno EXCEPT ![t] = e]
           ELSE /\ last' = Call("signal", -1, 1, 1, 0, 0, 0, FALSE)
                /\ errno' = [errno EXCEPT ![t] = "OTHER"]
                /\ UNCHANGED << cnt, nSigOK >>
    /\ UNCHANGED << platform, abi, crashed, slot, st, nWaitRet, pc, h, tgt, ndec, nintr >>

\* ---------------------------------------------------------------- decrement
\* Leaving decrement with value r after `logs` diagnostics.
DecReturn(t, r, logs, calls, decs, intrs) ==
    /\ last' = Call("wait", r, logs, calls, decs, intrs, 0, FALSE)
    /\ pc' = [pc EXCEPT ![t] = "idle"]
    /\ h' = [h EXCEPT ![t] = NULL]
    /\ ndec' = [ndec EXCEPT ![t] = 0]
    /\ nintr' = [nintr EXCEPT ![t] = 0]

\* DecBegin when line 111 starts from `int ret = 0`: the null handle still
\* skips the platform call, and the caller is told the wait succeeded.
DecBegin_RetZero(t, s) ==
    /\ ~crashed
    /\ pc[t] = "idle"
    /\ IF Arg(s) = NULL
         THEN /\ DecReturn(t, 0, 0, 0, 0, 0)
         ELSE /\ pc' = [pc EXCEPT ![t] = "sem_wait"]
              /\ h' = [h EXCEPT ![t] = Arg(s)]
              /\ ndec' = [ndec EXCEPT ![t] = 0]
              /\ nintr' = [nintr EXCEPT ![t] = 0]
              /\ UNCHANGED last
    /\ UNCHANGED << platform, abi, crashed, shared, tgt, errno >>

\* tsk_semaphore_decrement, lines 109-117: ret = EINVAL; a null handle
\* returns it at once, any other handle goes to the platform decrement.
DecBegin(t, s) ==
    /\ ~crashed
    /\ pc[t] = "idle"
    /\ IF Arg(s) = NULL
         THEN /\ DecReturn(t, EINVAL, 0, 0, 0, 0)
         ELSE /\ pc' = [pc EXCEPT ![t] = "sem_wait"]
              /\ h' = [h EXCEPT ![t] = Arg(s)]
              /\ ndec' = [ndec EXCEPT ![t] = 0]
              /\ nintr' = [nintr EXCEPT ![t] = 0]
              /\ UNCHANGED last
    /\ UNCHANGED << platform, abi, crashed, shared, tgt, errno >>

\* Again without the loop of lines 119-122: the platform decrement is issued
\* once and its result returned, whatever errno holds.
Again_Never(e) == FALSE

\* Line 122: while ( errno == EINTR ).  The Windows variant has no loop.
Again(e) == platform = "posix" /\ e = "EINTR"

\* DecTake with a decrement that does not wait for a permit (a non-blocking
\* decrement whose result is taken for a success).
DecTake_NoWait(t) ==
    LET o == h[t] IN
    /\ st[o] = "live"
    /\ ndec[t] < MaxDec
    /\ cnt' = [cnt EXCEPT ![o] = @ - 1]
    /\ errno' = errno
    /\ IF Again(errno[t])
         THEN /\ pc' = [pc EXCEPT ![t] = "sem_wait"]
              /\ ndec' = [ndec EXCEPT ![t] = @ + 1]
              /\ UNCHANGED << nWaitRet, h, nintr, last >>
         ELSE /\ DecReturn(t, 0, 0, ndec[t] + nintr[t] + 1, ndec[t] + 1, nintr[t])
              /\ nWaitRet' = [nWaitRet EXCEPT ![o] = @ + 1]
    /\ UNCHANGED << platform, abi, crashed, slot, st, nSigOK, tgt >>

\* The platform decrement took a permit: sem_wait returned 0 (line 120) or
\* WaitForSingleObject returned WAIT_OBJECT_0 (line 115).  On POSIX the loop
\* condition of line 122 then decides between another sem_wait and the
\* return of line 127.
DecTake(t) ==
    LET o == h[t] IN
    /\ st[o] = "live"
    /\ cnt[o] > 0
    /\ ndec[t] < MaxDec
    /\ cnt' = [cnt EXCEPT ![o] = @ - 1]
    /\ \E e \in (IF platform = "posix" THEN ErrnoAfterSuccess(errno[t])
                                         ELSE {errno[t]}) :
          /\ errno' = [errno EXCEPT ![t] = e]
          /\ IF Again(e)
               THEN /\ pc' = [pc EXCEPT ![t] = "sem_wait"]
                    /\ ndec' = [ndec EXCEPT ![t] = @ + 1]
                    /\ UNCHANGED << nWaitRet, h, nintr, last >>
               ELSE /\ DecReturn(t, 0, 0, ndec[t] + nintr[t] + 1, ndec[t] + 1,
                                 nintr[t])
                    /\ nWaitRet' = [nWaitRet EXCEPT ![o] = @ + 1]
    /\ UNCHANGED << platform, abi, crashed, slot, st, nSigOK, tgt >>

\* The platform decrement is called and finds a permit.
DecTry(t) ==
    /\ ~crashed
    /\ pc[t] = "sem_wait"
    /\ DecTake(t)

\* The platform decrement is called and finds none: the thread sleeps.
DecBlock(t) ==
    /\ ~crashed
    /\ pc[t] = "sem_wait"
    /\ st[h[t]] = "live"
    /\ cnt[h[t]] = 0
    /\ pc' = [pc EXCEPT ![t] = "blocked"]
    /\ UNCHANGED << platform, abi, crashed, shared, h, tgt, errno, ndec, nintr, last >>

\* A sleeping thread is woken by a permit.
DecWake(t) ==
    /\ ~crashed
    /\ pc[t] = "blocked"
    /\ DecTake(t)

\* DecIntr with the interruption taken for a wake-up: the call returns 0.
DecIntr_AsSuccess(t) ==
    /\ ~crashed
    /\ platform = "posix"
    /\ pc[t] = "blocked"
    /\ nintr[t] < MaxIntr
    /\ st[h[t]] = "live"
    /\ errno' = [errno EXCEPT ![t] = "EINTR"]
    /\ DecReturn(t, 0, 0, ndec[t] + nintr[t] + 1, ndec[t], nintr[t] + 1)
    /\ nWaitRet' = [nWaitRet EXCEPT ![h[t]] = @ + 1]
    /\ UNCHANGED << platform, abi, crashed, slot, st, cnt, nSigOK, tgt >>

\* POSIX: a signal handler interrupts the sleeping thread; sem_wait returns
\* -1 with errno EINTR and line 122 calls it again.
DecIntr(t) ==
    /\ ~crashed
    /\ platform = "posix"
    /\ pc[t] = "blocked"
    /\ nintr[t] < MaxIntr
    /\ errno' = [errno EXCEPT ![t] = "EINTR"]
    /\ IF Again("EINTR")
         THEN /\ pc' = [pc EXCEPT ![t] = "sem_wait"]
              /\ nintr' = [nintr EXCEPT ![t] = @ + 1]
              /\ UNCHANGED << h, ndec, last >>
         ELSE DecReturn(t, -1, 1, ndec[t] + nintr[t] + 1, ndec[t], nintr[t] + 1)
    /\ UNCHANGED << platform, abi, crashed, shared, tgt >>

\* DecFail when the loop of line 122 tested ret instead of errno: a failed
\* platform decrement is issued again instead of being returned.
DecFail_Retry(t) ==
    /\ ~crashed
    /\ pc[t] \in {"sem_wait", "blocked"}
    /\ st[h[t]] # "live"
    /\ errno' = [errno EXCEPT ![t] = IF platform = "posix" THEN "OTHER" ELSE @]
    /\ pc' = [pc EXCEPT ![t] = "sem_wait"]
    /\ UNCHANGED << platform, abi, crashed, shared, h, tgt, ndec, nintr, last >>

\* The object was released under the call (the caller destroyed it while the
\* call was in flight): the platform decrement fails for good, when it
\* returns at all.  Lines 116 and 123 log the failure, line 127 returns -1.
DecFail(t) ==
    /\ ~crashed
    /\ pc[t] \in {"sem_wait", "blocked"}
    /\ st[h[t]] # "live"
    /\ errno' = [errno EXCEPT ![t] = IF platform = "posix" THEN "OTHER" ELSE @]
    /\ DecReturn(t, -1, 1, ndec[t] + nintr[t] + 1, ndec[t], nintr[t])
    /\ UNCHANGED << platform, abi, crashed, shared, tgt >>

\* ------------------------------------------------------------------ destroy
\* tsk_free(handle) of line 144 (tsk_memory.h), on the slot's address: the
\* block the slot points to is released and the slot is cleared.
tsk_free(s) ==
    /\ st' = [st EXCEPT ![slot[s]] = "free"]
    /\ slot' = [slot EXCEPT ![s] = NULL]

\* DestroyLive without line 141 / without the clearing of line 144: the
\* object is released and the slot keeps the handle.
DestroyLive_KeepHandle(t, s) ==
    /\ st' = [st EXCEPT ![slot[s]] = "free"]
    /\ slot' = slot
    /\ last' = Call("destroy", 0, 0, 1, 0, 0, 1, FALSE)

\* DestroyLive that waits for the calls in flight on the handle to leave
\* before it releases the object.
DestroyLive_AfterWaiters(t, s) ==
    /\ \A u \in DOMAIN pc : h[u] # slot[s]
    /\ st' = [st EXCEPT ![slot[s]] = "free"]
    /\ slot' = [slot EXCEPT ![s] = NULL]
    /\ last' = Call("destroy", 0, 0, 1, 0, 0, 1, FALSE)

\* DestroyLive without the platform release and without the release of the
\* block (CloseHandle of line 140, sem_destroy and the free of lines
\* 143-144): the slot is cleared and the object stays.
DestroyLive_NoRelease(t, s) ==
    /\ st' = st
    /\ slot' = [slot EXCEPT ![s] = NULL]
    /\ last' = Call("destroy", 0, 0, 1, 0, 0, 0, FALSE)

\* Lines 139-145, on a slot that holds a handle: the platform object is
\* released (CloseHandle / sem_destroy) and the slot is cleared
\* (*handle = 0 / tsk_free(handle)).
DestroyLive(t, s) ==
    /\ IF platform = "windows"
         THEN /\ st' = [st EXCEPT ![slot[s]] = "free"]
              /\ slot' = [slot EXCEPT ![s] = NULL]
         ELSE tsk_free(s)
    /\ last' = Call("destroy", 0, 0, 1, 0, 0, 1, FALSE)

\* DestroyNull when line 137 tests `handle` alone: an empty slot goes to the
\* platform release and no warning is emitted.
DestroyNull_NoCheck(t, s) ==
    /\ last' = Call("destroy", 0, 0, 1, 0, 0, 0, FALSE)
    /\ UNCHANGED << slot, st >>

\* Lines 147-150: no slot, or an empty one: a warning and nothing else.
DestroyNull(t, s) ==
    /\ last' = Call("destroy", 0, 1, 0, 0, 0, 0, FALSE)
    /\ UNCHANGED << slot, st >>

\* tsk_semaphore_destroy, lines 135-151; s = 0 is the null slot reference.
Destroy(t, s) ==
    /\ ~crashed
    /\ pc[t] = "idle"
    /\ s \notin Pending
    /\ IF s # 0 /\ slot[s] # NULL
         THEN DestroyLive(t, s) /\ Forget(slot[s])
         ELSE DestroyNull(t, s) /\ UNCHANGED << cnt, nSigOK, nWaitRet >>
    /\ UNCHANGED << platform, abi, crashed, local >>

\* --------------------------------------------------------------------- spec
Next ==
    \/ \E t \in DOMAIN pc, e \in ErrnoVals : OtherCode(t, e)
    \/ \E t \in DOMAIN pc, s \in Slots : CreateWin(t, s)
    \/ \E t \in DOMAIN pc, s \in Slots : CreateAlloc(t, s)
    \/ \E t \in DOMAIN pc : CreateInit(t)
    \/ \E t \in DOMAIN pc, s \in Slots \cup {0} : Increment(t, s)
    \/ \E t \in DOMAIN pc, s \in Slots \cup {0} : DecBegin(t, s)
    \/ \E t \in DOMAIN pc : DecTry(t)
    \/ \E t \in DOMAIN pc : DecBlock(t)
    \/ \E t \in DOMAIN pc : DecWake(t)
    \/ \E t \in DOMAIN pc : DecIntr(t)
    \/ \E t \in DOMAIN pc : DecFail(t)
    \/ \E t \in DOMAIN pc, s \in Slots \cup {0} : Destroy(t, s)

Spec == Init /\ [][Next]_vars

\* ---------------------------------------------------------------- scenarios
\* The state right after a successful create stored its handle in slot 1:
\* one live semaphore, which the scenarios below never destroy.
Created(T) ==
    /\ platform \in {"posix", "windows"}
    /\ abi \in Abis(platform)
    /\ crashed = FALSE
    /\ slot = [s \in Slots |-> IF s = 1 THEN 1 ELSE NULL]
    /\ st = [o \in Objs |-> IF o = 1 THEN "live" ELSE "free"]
    /\ cnt = [o \in Objs |-> 0]
    /\ nSigOK = [o \in Objs |-> 0]
    /\ nWaitRet = [o \in Objs |-> 0]
    /\ pc = [t \in T |-> "idle"]
    /\ h = [t \in T |-> NULL]
    /\ tgt = [t \in T |-> 0]
    /\ errno \in [T -> ErrnoVals]
    /\ ndec = [t \in T |-> 0]
    /\ nintr = [t \in T |-> 0]
    /\ last = Call("create", 1, 0, 1, 0, 0, 0, FALSE)

\* Signal and wait calls issued concurrently by the threads of Pool on the
\* one live semaphore.
ConcInit == Created(Pool)

ConcNext ==
    \/ \E t \in DOMAIN pc, e \in ErrnoVals : OtherCode(t, e)
    \/ \E t \in DOMAIN pc, s \in Slots \cup {0} : Increment(t, s)
    \/ \E t \in DOMAIN pc, s \in Slots \cup {0} : DecBegin(t, s)
    \/ \E t \in DOMAIN pc : DecTry(t)
    \/ \E t \in DOMAIN pc : DecBlock(t)
    \/ \E t \in DOMAIN pc : DecWake(t)
    \/ \E t \in DOMAIN pc : DecIntr(t)

ConcSpec == ConcInit /\ [][ConcNext]_vars

\* The same calls by threads that enter with an errno other than EINTR and
\* whose other code leaves it so: EINTR only comes from an interrupted
\* platform decrement.
IntrInit == Created(Pool) /\ \A t \in Pool : errno[t] = "OTHER"

IntrNext ==
    \/ \E t \in DOMAIN pc, s \in Slots \cup {0} : Increment(t, s)
    \/ \E t \in DOMAIN pc, s \in Slots \cup {0} : DecBegin(t, s)
    \/ \E t \in DOMAIN pc : DecTry(t)
    \/ \E t \in DOMAIN pc : DecBlock(t)
    \/ \E t \in DOMAIN pc : DecWake(t)
    \/ \E t \in DOMAIN pc : DecIntr(t)

IntrSpec == IntrInit /\ [][IntrNext]_vars

\* One thread alone: it creates a semaphore, signals it N times (N up to the
\* counter's maximum) and only then starts to wait on it.
SeqInit == Boot({1})

SeqNext ==
    \/ \E e \in ErrnoVals : OtherCode(1, e)
    \/ last.op = "none" /\ CreateWin(1, 1)
    \/ last.op = "none" /\ CreateAlloc(1, 1)
    \/ CreateInit(1)
    \/ /\ slot[1] # NULL /\ last.op \in {"create", "signal"}
       /\ cnt[slot[1]] < MaxCount
       /\ Increment(1, 1)
    \/ slot[1] # NULL /\ DecBegin(1, 1)
    \/ DecTry(1)
    \/ DecBlock(1)
    \/ DecIntr(1)

SeqSpec == SeqInit /\ [][SeqNext]_vars

\* Fair scheduling of M signals and M waits issued concurrently on the live
\* semaphore by two thread pools; no thread enters with a stale EINTR.
WaitsBegun ==
    nWaitRet[1] + Cardinality({ t \in DOMAIN pc : pc[t] # "idle" })

LiveStep(t) ==
    \/ t \in Waiters /\ WaitsBegun < NumPairs /\ DecBegin(t, 1)
    \/ t \in Signallers /\ nSigOK[1] < NumPairs /\ Increment(t, 1)
    \/ DecTry(t)
    \/ DecBlock(t)
    \/ DecWake(t)

LiveNext == \E t \in Pool : LiveStep(t) \/ DecIntr(t)

\* A thread that can take a step of its call is scheduled eventually; an
\* interruption may or may not come.
LiveSpec ==
    /\ IntrInit
    /\ [][LiveNext]_vars
    /\ \A t \in Pool : WF_vars(LiveStep(t))

\* ------------------------------------------------------------------- claims
\* C1: a wait that is interrupted by EINTR any number of times behaves like
\* an uninterrupted one: after the first platform decrement that succeeds it
\* calls the platform decrement no more, and it returns success having taken
\* exactly one permit.
C1_InterruptedWaitTakesOnePermit ==
    /\ \A t \in DOMAIN pc : pc[t] \in {"sem_wait", "blocked"} => ndec[t] = 0
    /\ (last.op = "wait" /\ last.ret = 0) => last.ndec = 1

\* C2: whatever the interleaving of create, signal, wait and destroy, the
\* counter of a live semaphore is never negative.
C2_CounterNonNegative ==
    \A o \in Objs : st[o] = "live" => cnt[o] >= 0

\* C2 witness: a wait has returned with the last permit of a live semaphore
\* and another thread sleeps on its counter of 0.
C2_Witness ==
    \E o \in Objs, t \in DOMAIN pc :
        /\ st[o] = "live" /\ cnt[o] = 0 /\ nWaitRet[o] >= 1
        /\ pc[t] = "blocked" /\ h[t] = o

\* C3: on a fresh semaphore, N signals followed by N waits all return
\* success and only the (N+1)-th wait blocks: a thread sleeps on the counter
\* only when every permit signalled went to a wait that returned 0.
C3_ExactlyNPermits ==
    /\ \A t \in DOMAIN pc :
          pc[t] = "blocked" => nWaitRet[h[t]] = nSigOK[h[t]]
    /\ last.op = "wait" => last.ret = 0
    /\ \A o \in Objs : nWaitRet[o] <= nSigOK[o]

\* C4: with signals and waits issued concurrently on the live semaphore,
\* the waits that returned success plus the permits still in the counter
\* never exceed the signals that succeeded: no wait completes without a
\* prior signal and one signal lets at most one waiter complete.
C4_NoWaitWithoutSignal ==
    \A o \in Objs : st[o] = "live" => nWaitRet[o] + cnt[o] <= nSigOK[o]

\* C4 witness: one signal succeeded, one wait returned with its permit and
\* another waiter still sleeps.
C4_Witness ==
    \E t \in DOMAIN pc :
        /\ nSigOK[1] = 1 /\ nWaitRet[1] = 1 /\ cnt[1] = 0
        /\ pc[t] = "blocked" /\ h[t] = 1
        /\ last.op = "wait" /\ last.ret = 0

\* C5: under fair scheduling, M signals and M waits issued concurrently on
\* the live semaphore end with every one of the M waits returned success.
C5_EveryWaitReturns == <>(nWaitRet[1] = NumPairs)

\* C6: a created semaphore starts at 0: no wait on it returns before a
\* signal, and once a signal succeeded while a wait is in progress a wait
\* returns success.
C6_WaitReturnsAfterSignal ==
    /\ [](nWaitRet[1] >= 1 => nSigOK[1] >= 1)
    /\ ((nSigOK[1] >= 1 /\ \E t \in Waiters : pc[t] # "idle")
            ~> (nWaitRet[1] >= 1))

\* C7: when the allocator returns no block, create returns the null
\* handle without a platform call through the absent block (and the process
\* survives).
C7_AllocFailureReturnsNull ==
    /\ \A t \in DOMAIN pc : (pc[t] = "sem_init" /\ h[t] = NULL) => ~crashed
    /\ last.absent => (last.op = "create" /\ last.ret = NULL /\ last.ncalls = 0)

\* C8: when create has its block and the platform initialisation fails, the
\* step that returns the null handle leaves the block released and the
\* caller's slot empty: nothing of that call is outstanding.
C8_FailedInitReleasesBlock ==
    [][\A t \in DOMAIN pc :
          (pc[t] = "sem_init" /\ h[t] # NULL /\ pc'[t] = "idle"
                /\ last'.ret = NULL)
             => (st'[h[t]] = "free" /\ slot'[tgt[t]] = NULL
                   /\ \A o \in Objs : st'[o] = "live" => st[o] = "live")]_vars

\* C8 witness: a create whose sem_init failed has returned the null handle
\* after releasing its block.
C8_Witness ==
    /\ last.op = "create" /\ last.ret = NULL /\ ~last.absent
    /\ last.nrel = 1 /\ last.nlog = 2
    /\ \A o \in Objs : st[o] = "free"

\* C9: destroy on a slot that holds a live handle releases the platform
\* object and leaves the null sentinel in the slot.
C9_DestroyClearsSlot ==
    [][\A t \in DOMAIN pc, s \in Slots :
          (slot[s] # NULL /\ Destroy(t, s))
             => (slot'[s] = NULL /\ st'[slot[s]] = "free")]_vars

\* C9 witness: a destroy has released an object and the slot is null.
C9_Witness ==
    /\ last.op = "destroy" /\ last.nrel = 1 /\ last.nlog = 0
    /\ slot[1] = NULL /\ \A o \in Objs : st[o] = "free"

\* C10: destroy on an empty slot, or with no slot, is a no-op: it releases
\* nothing, makes no platform call, leaves slots and objects as they are
\* and emits one warning.
C10_DestroyNullIsNoOp ==
    [][\A t \in DOMAIN pc, s \in Slots \cup {0} :
          (Arg(s) = NULL /\ Destroy(t, s))
             => (UNCHANGED << slot, st, cnt >> /\ last'.op = "destroy"
                   /\ last'.nlog = 1 /\ last'.nrel = 0 /\ last'.ncalls = 0)]_vars

\* C10 witness: a destroy found its slot empty: it only warned, released
\* nothing and left the slot null.
C10_Witness ==
    /\ last.op = "destroy" /\ last.nlog = 1 /\ last.nrel = 0
    /\ slot[1] = NULL /\ \A o \in Objs : st[o] = "free"

C12_InterruptionNotSurfaced ==
    [][\A t \in DOMAIN pc :
          /\ DecIntr(t) => (/\ pc'[t] = "sem_wait" /\ h'[t] = h[t]
                            /\ nintr'[t] = nintr[t] + 1 /\ last' = last)
          /\ (pc[t] \in {"sem_wait", "blocked"} /\ pc'[t] = "idle"
                /\ last'.ret # 0)
                => st[h[t]] # "live"]_vars

\* C12 witness: a wait on a live semaphore was interrupted and is about to
\* issue the platform decrement again; nothing was returned for it.
C12_Witness ==
    \E t \in DOMAIN pc :
        /\ pc[t] = "sem_wait" /\ nintr[t] = 1 /\ ndec[t] = 0
        /\ errno[t] = "EINTR" /\ st[h[t]] = "live"
        /\ last.op # "wait"

\* C13: every failure is logged.  A create that returned the null handle, a
\* signal or a wait that returned anything but 0 (EINVAL for a null handle,
\* -1 for a platform failure) and a destroy that found no handle to release
\* each emitted at least one diagnostic before returning.
C13_EveryFailureLogged ==
    /\ (last.op = "create" /\ last.ret = NULL) => last.nlog >= 1
    /\ (last.op \in {"signal", "wait"} /\ last.ret # 0) => last.nlog >= 1
    /\ (last.op = "destroy" /\ last.nrel = 0) => last.nlog >= 1

\* C14: when the platform increment fails on a live handle, its counter
\* being at the maximum, signal returns the platform failure value -1
\* (not 0, not EINVAL) after one platform call and one diagnostic; the
\* counter is unchanged, no waiter is woken or returned, and the handle
\* stays in its slot, live.
C14_FailedSignalChangesNothing ==
    [][\A t \in DOMAIN pc, s \in Slots :
          (/\ slot[s] # NULL /\ st[slot[s]] = "live"
           /\ cnt[slot[s]] = MaxCount /\ Increment(t, s))
             => (/\ last'.op = "signal" /\ last'.ret = -1
                 /\ last'.ret \notin {0, EINVAL}
                 /\ last'.ncalls = 1 /\ last'.nlog = 1
                 /\ UNCHANGED << slot, st, cnt, nSigOK, nWaitRet, pc, h >>)]_vars

\* C14 witness: a signal on a live semaphore whose counter is at the
\* maximum has returned -1; the semaphore is still live with that counter,
\* and a thread sleeping in wait on it was not woken by the call.
C14_Witness ==
    /\ last.op = "signal" /\ last.ret = -1 /\ last.nlog = 1
    /\ slot[1] # NULL /\ st[slot[1]] = "live" /\ cnt[slot[1]] = MaxCount
    /\ \E t \in DOMAIN pc : pc[t] = "blocked" /\ h[t] = slot[1]

\* C15: when the platform decrement fails on a non-null handle for a
\* reason that is no interruption (the handle is no live semaphore), wait
\* returns -1 in that very step: the failed call is the call's last platform
\* call (no retry), one diagnostic is emitted and no counter is decremented.
C15_FailedWaitReturnsAtOnce ==
    [][\A t \in DOMAIN pc :
          DecFail(t)
             => (/\ last'.op = "wait" /\ last'.ret = -1 /\ last'.ret # 0
                 /\ pc'[t] = "idle" /\ h'[t] = NULL
                 /\ last'.ncalls = ndec[t] + nintr[t] + 1
                 /\ last'.ndec = ndec[t] /\ last'.nlog = 1
                 /\ UNCHANGED << slot, st, cnt, nSigOK, nWaitRet >>)]_vars

\* C15 witness: a wait whose only platform decrement failed has returned
\* -1 after that one call, having decremented nothing.
C15_Witness ==
    /\ last.op = "wait" /\ last.ret = -1
    /\ last.ncalls = 1 /\ last.ndec = 0 /\ last.nintr = 0
    /\ \A t \in DOMAIN pc : pc[t] = "idle"

\* C16: signal and destroy never block.  A thread outside the calls can
\* always take the step of signal, whatever the handle, the counter and the
\* threads asleep in wait (the one exclusion is the bound MaxSignals on the
\* increments explored), and the step of destroy, on a live, an empty or no
\* slot (the slot's owner does not call destroy during its own create); and
\* either call is over after that one step: the thread is outside again and
\* the call has returned.
C16_SignalAndDestroyReturn ==
    /\ [](\A t \in DOMAIN pc, s \in Slots \cup {0} :
             (~crashed /\ pc[t] = "idle")
                => /\ (IF Arg(s) = NULL THEN TRUE
                         ELSE cnt[Arg(s)] = MaxCount
                                \/ nSigOK[Arg(s)] < MaxSignals)
                        => ENABLED Increment(t, s)
                   /\ s \notin Pending => ENABLED Destroy(t, s))
    /\ [][\A t \in DOMAIN pc, s \in Slots \cup {0} :
             /\ Increment(t, s) => (pc'[t] = "idle" /\ last'.op = "signal")
             /\ Destroy(t, s) => (pc'[t] = "idle" /\ last'.op = "destroy")]_vars

\* C16 witness: a destroy has returned after releasing a semaphore on which
\* another thread is asleep in wait.
C16_Witness ==
    /\ last.op = "destroy" /\ last.nrel = 1
    /\ \E t \in DOMAIN pc : pc[t] = "blocked" /\ st[h[t]] = "free"
    /\ \E t \in DOMAIN pc : pc[t] = "idle"

\* C17: the outcome of wait does not depend on what errno held on entry.
\* On a live handle with a permit in the counter and no interruption during
\* the call, the run that enters with a left-over EINTR and the run that
\* enters with any other value end alike: once the platform decrement has
\* succeeded the call is over, and it has returned 0 after exactly one
\* platform call that took exactly one permit.
C17_WaitIgnoresEntryErrno ==
    /\ \A t \in DOMAIN pc :
          (pc[t] \in {"sem_wait", "blocked"} /\ nintr[t] = 0) => ndec[t] = 0
    /\ (last.op = "wait" /\ last.ret = 0 /\ last.nintr = 0)
          => (last.ndec = 1 /\ last.ncalls = 1)

\* C18: create and destroy keep the books straight.  The objects and
\* blocks that are allocated or initialised and not released are exactly
\* the handles held in the slots, plus the block of a create that has not
\* returned yet: nothing leaks.  A handle in a slot is a live object and no
\* two slots or creates hold the same one; and a step releases an object
\* only if a slot, or the failing create that owns the block, held it just
\* before, and a destroy or a create that returns reports as many releases
\* as objects left the books in its step: nothing is released twice.
C18_NoLeakNoDoubleRelease ==
    /\ [](LET held  == { slot[s] : s \in Slots } \ {NULL}
              inUse == { h[t] : t \in { u \in DOMAIN pc : pc[u] = "sem_init" } }
                          \ {NULL}
          IN  /\ { o \in Objs : st[o] # "free" } = held \cup inUse
              /\ \A o \in held : st[o] = "live"
              /\ \A o \in inUse : st[o] = "alloc"
              /\ \A s1, s2 \in Slots :
                    (slot[s1] # NULL /\ slot[s1] = slot[s2]) => s1 = s2)
    /\ [][\A o \in Objs :
             (st[o] # "free" /\ st'[o] = "free")
                => /\ last'.nrel = 1
                   /\ \/ \E s \in Slots : slot[s] = o /\ slot'[s] = NULL
                      \/ \E t \in DOMAIN pc :
                            pc[t] = "sem_init" /\ h[t] = o /\ pc'[t] = "idle"]_vars
    /\ [][\A t \in DOMAIN pc, s \in Slots \cup {0} :
             (Destroy(t, s) \/ CreateInit(t))
                => (crashed' \/ last'.nrel = Cardinality(
                       { o \in Objs : st[o] # "free" /\ st'[o] = "free" }))]_vars

\* C18 witness: after a create, a destroy and a second create that succeeded
\* the slot holds the one object that is not released.
C18_Witness ==
    /\ last.op = "create" /\ last.ret # NULL /\ slot[1] = last.ret
    /\ st[last.ret] = "live"
    /\ \E o \in Objs : o # last.ret /\ st[o] = "free"
    /\ \A t \in DOMAIN pc : pc[t] = "idle"

\* C19: on POSIX, the block create obtained for the handle is at least as
\* large as the sem_t that sem_init fills in at its start: whenever create
\* is about to initialise a block, tsk_calloc(1, sizeof(SEMAPHORE_T)) bytes
\* hold a sem_t, and the process never faults over a write past the block.
C19_BlockHoldsSemaphore ==
    \A t \in DOMAIN pc :
        (platform = "posix" /\ pc[t] = "sem_init" /\ h[t] # NULL)
           => /\ tsk_calloc(1, sizeof_SEMAPHORE_T(abi)) >= sizeof_sem_t(abi)
              /\ ~crashed

TypeOK ==
    /\ platform \in {"posix", "windows"}
    /\ abi \in Abis(platform)
    /\ crashed \in BOOLEAN
    /\ slot \in [Slots -> Objs \cup {NULL}]
    /\ st \in [Objs -> {"free", "alloc", "live"}]
    /\ cnt \in [Objs -> 0..MaxCount]
    /\ pc \in [DOMAIN pc -> {"idle", "sem_init", "sem_wait", "blocked"}]
    /\ errno \in [DOMAIN pc -> ErrnoVals]
    /\ \A o \in Objs : nWaitRet[o] \in 0..MaxSignals /\ nSigOK[o] \in 0..MaxSignals
====
